---------------------------- MODULE Spec2Model ----------------------------
(***************************************************************************)
(* A model of the JOS kernel monitor, lab2-challenge/kern/monitor.c:       *)
(* the console loop (monitor), the tokenizer and dispatcher (runcmd), the  *)
(* mapping inspector (mon_showmappings, get_perm) and the stack unwinder   *)
(* (mon_backtrace).                                                        *)
(*                                                                         *)
(* A 32-bit word that holds a virtual address or a page-table entry is the *)
(* record [hi, lo]: hi is the word's upper 20 bits (the page or frame      *)
(* number), lo its lower 12 bits (the page offset, or the entry's flags);  *)
(* the word is hi * PGSIZE + lo, and every operation below is the 32-bit   *)
(* operation of the code on that pair, wrap-around modulo 2^32 included.   *)
(* Stack addresses and instruction addresses of the unwinder are plain     *)
(* numbers, written relative to the base of the kernel's stack region.     *)
(***************************************************************************)
EXTENDS Integers, Sequences, FiniteSets, TLC

(***************************************************************************)
(* Constants of the program                                                *)
(***************************************************************************)
PGSIZE == 4096
NPAGES == 1048576
MAXARGS == 16
E_INVAL == 3
PermSize == 1

PTE_P == 1
PTE_W == 2
PTE_U == 4
PTE_PWT == 8
PTE_PCD == 16
PTE_A == 32
PTE_D == 64
PTE_PS == 128
PTE_G == 256
PTE_AVAIL == 3584

(***************************************************************************)
(* Bounds of the model                                                     *)
(***************************************************************************)
\* a range walk is followed for at most MaxLookups calls of pgdir_walk
MaxLookups == 6
\* the longest frame-pointer chain the unwinder is run on
MaxDepth == 3

(***************************************************************************)
(* 32-bit words                                                            *)
(***************************************************************************)
Word(h, l) == [hi |-> h, lo |-> l]

\* a + n in uint32_t arithmetic, for 0 <= n <= PGSIZE
AddU32(a, n) ==
    Word((a.hi + ((a.lo + n) \div PGSIZE)) % NPAGES, (a.lo + n) % PGSIZE)

\* a <= b and a > b on uint32_t
LeqU32(a, b) == a.hi < b.hi \/ (a.hi = b.hi /\ a.lo <= b.lo)
GtU32(a, b) == ~LeqU32(a, b)

\* ROUNDDOWN(a, PGSIZE) and ROUNDUP(a, PGSIZE)
ROUNDDOWN(a) == Word(a.hi, 0)
ROUNDUP(a) == ROUNDDOWN(AddU32(a, PGSIZE - 1))

\* x & y on the low twelve bits of a word
RECURSIVE BitAnd(_, _)
BitAnd(x, y) ==
    IF x = 0 \/ y = 0 THEN 0
    ELSE (x % 2) * (y % 2) + 2 * BitAnd(x \div 2, y \div 2)

\* PTE_ADDR(pte): the entry with its flag bits masked off
PTE_ADDR(pte) == Word(pte.hi, 0)

(***************************************************************************)
(* C strings: a string is a sequence of one-character strings              *)
(***************************************************************************)
NUL == "NUL"
WHITESPACE == {"\t", "\r", "\n", " "}

HexDigits ==
    <<"0", "1", "2", "3", "4", "5", "6", "7", "8", "9",
      "a", "b", "c", "d", "e", "f">>
HexUpper == <<"A", "B", "C", "D", "E", "F">>

IsHex(c) ==
    \/ \E i \in 1..16 : HexDigits[i] = c
    \/ \E i \in 1..6 : HexUpper[i] = c

DigitVal(c) ==
    IF \E i \in 1..16 : HexDigits[i] = c
    THEN (CHOOSE i \in 1..16 : HexDigits[i] = c) - 1
    ELSE (CHOOSE i \in 1..6 : HexUpper[i] = c) + 9

\* strtol(s, &endptr, 16): the digits are folded into a 32-bit value,
\* val = val * 16 + dig, and endptr is left at the first character that is
\* no hex digit (<<>> stands for the terminating NUL).  The lines below
\* carry no sign, no 0x prefix and no blank inside a token.
RECURSIVE StrtolFrom(_, _)
StrtolFrom(s, acc) ==
    IF s = <<>> \/ ~IsHex(Head(s)) THEN [val |-> acc, endptr |-> s]
    ELSE LET t == acc.lo * 16 + DigitVal(Head(s))
         IN  StrtolFrom(Tail(s),
                        Word((acc.hi * 16 + (t \div PGSIZE)) % NPAGES,
                             t % PGSIZE))
strtol(s) == StrtolFrom(s, Word(0, 0))


(***************************************************************************)
(* The perm buffer.  perm is declared char perm[] = "", PermSize bytes.    *)
(* A buffer value is the content of the stack from perm[0] up to the last  *)
(* byte written through perm: byte 1 is perm[0], the bytes after PermSize  *)
(* lie on the stack above perm.                                            *)
(***************************************************************************)
\* perm at the entry of the handler: the empty string
PermInit == <<NUL>>

\* strlen(buf)
StrLen(buf) ==
    LET nuls == {i \in 1..Len(buf) : buf[i] = NUL}
    IN  IF nuls = {} THEN Len(buf)
        ELSE (CHOOSE i \in nuls : \A j \in nuls : i <= j) - 1

\* the string a %s conversion prints from buf
CStr(buf) == SubSeq(buf, 1, StrLen(buf))

\* strcat(buf, s): s and its terminator are written at the first NUL,
\* wherever that leads
strcat(buf, s) ==
    LET w == CStr(buf) \o s \o <<NUL>>
    IN  IF Len(w) >= Len(buf) THEN w
        ELSE w \o SubSeq(buf, Len(w) + 1, Len(buf))

\* memset(buf, 0, n), for n within buf
memset(buf, n) == [i \in 1..n |-> NUL] \o SubSeq(buf, n + 1, Len(buf))

\* a range loop that clears nothing of perm before it renders a page
ClearSizeStale == PermSize - 1
\* the size the range loop passes to memset: sizeof(perm)
ClearSize == PermSize

\* the absent entry: pgdir_walk returned NULL
NoPte == [hi |-> -1, lo |-> 0]

\* one strcat argument of get_perm: (*pte & mask) ? tok : "-"
Marker(pte, mask, tok) == IF BitAnd(pte.lo, mask) # 0 THEN tok ELSE <<"-">>

get_perm(buf, pte) ==
    IF pte = NoPte THEN buf
    ELSE
    LET b1 == strcat(buf, Marker(pte, PTE_AVAIL, <<"(", "A", "V", "L", ")">>))
        b2 == strcat(b1, Marker(pte, PTE_G, <<"(", "G", ")">>))
        b3 == strcat(b2, Marker(pte, PTE_PS, <<"(", "P", "S", ")">>))
        b4 == strcat(b3, Marker(pte, PTE_D, <<"(", "D", ")">>))
        b5 == strcat(b4, Marker(pte, PTE_A, <<"(", "A", ")">>))
        b6 == strcat(b5, Marker(pte, PTE_PCD, <<"(", "P", "C", "D", ")">>))
        b7 == strcat(b6, Marker(pte, PTE_PWT, <<"(", "P", "W", "T", ")">>))
        b8 == strcat(b7, Marker(pte, PTE_U, <<"(", "U", ")">>))
        b9 == strcat(b8, Marker(pte, PTE_W, <<"(", "W", ")">>))
    IN  strcat(b9, Marker(pte, PTE_P, <<"(", "P", ")">>))

\* the bytes written through perm that lie outside perm
Overflow(buf) == IF Len(buf) > PermSize THEN Len(buf) - PermSize ELSE 0

(***************************************************************************)
(* The page table                                                          *)
(***************************************************************************)
\* pgdir_walk(pgdir, va, 0): the entry of va's page, or NoPte
pgdir_walk(pgdir, va) ==
    IF va.hi \in DOMAIN pgdir THEN pgdir[va.hi] ELSE NoPte

\* !pte || !(*pte & PTE_P)
NotMapped(pte) == pte = NoPte \/ BitAnd(pte.lo, PTE_P) = 0

(***************************************************************************)
(* The command table and the tokenizer                                     *)
(***************************************************************************)
s_help == <<"h", "e", "l", "p">>
s_kerninfo == <<"k", "e", "r", "n", "i", "n", "f", "o">>
s_backtrace == <<"b", "a", "c", "k", "t", "r", "a", "c", "e">>
s_showmappings == <<"s", "h", "o", "w", "m", "a", "p", "p", "i", "n", "g", "s">>

commands ==
    << [name |-> s_help, sname |-> <<"h">>,
        desc |-> "Display this list of commands", func |-> "mon_help"],
       [name |-> s_kerninfo, sname |-> <<"k", "i">>,
        desc |-> "Display information about the kernel", func |-> "mon_kerninfo"],
       [name |-> s_backtrace, sname |-> <<"b", "t">>,
        desc |-> "show the kernel stack backtrace", func |-> "mon_backtrace"],
       [name |-> s_showmappings, sname |-> <<"s", "m">>,
        desc |-> "show mapping of the physical address range",
        func |-> "mon_showmappings"] >>

\* the first index at or after i whose character is (is not) white space
RECURSIVE SkipWs(_, _)
SkipWs(buf, i) ==
    IF i <= Len(buf) /\ buf[i] \in WHITESPACE THEN SkipWs(buf, i + 1) ELSE i

RECURSIVE SkipTok(_, _)
SkipTok(buf, i) ==
    IF i <= Len(buf) /\ buf[i] \notin WHITESPACE THEN SkipTok(buf, i + 1) ELSE i

\* the parse loop of runcmd from position i with the arguments args saved:
\* toomany when a token starts with MAXARGS-1 arguments already saved
RECURSIVE ParseFrom(_, _, _)
ParseFrom(buf, i, args) ==
    LET j == SkipWs(buf, i)
    IN  IF j > Len(buf) THEN [toomany |-> FALSE, argv |-> args]
        ELSE IF Len(args) = MAXARGS - 1 THEN [toomany |-> TRUE, argv |-> args]
        ELSE LET k == SkipTok(buf, j)
             IN  ParseFrom(buf, k, Append(args, SubSeq(buf, j, k - 1)))

Tokenize(buf) == ParseFrom(buf, 1, <<>>)

\* strcmp(argv[0], commands[i].name) == 0 || strcmp(argv[0], commands[i].sname) == 0
Matches(tok, i) == tok = commands[i].name \/ tok = commands[i].sname

\* the for loop of runcmd: the first matching entry's handler, or "none"
Lookup(tok) ==
    IF \E i \in 1..Len(commands) : Matches(tok, i)
    THEN commands[CHOOSE i \in 1..Len(commands) :
                      Matches(tok, i) /\ \A j \in 1..(i - 1) : ~Matches(tok, j)].func
    ELSE "none"

(***************************************************************************)
(* The stack and the debug information                                     *)
(***************************************************************************)
\* the word offsets mon_backtrace reads from a frame pointer
NextSlot == 0
EipSlot == 1
ArgSlots == <<2, 3, 4, 5, 6>>

\* the frames a chain is drawn from, lowest address first (a caller's frame
\* lies above its callee's)
FrameAddrs == {3840 + 64 * i : i \in 0..(MaxDepth - 1)}
RetAddr(f) == 150 + 85 * ((f - 3840) \div 64)

SortedSeq(S) ==
    CHOOSE q \in [1..Cardinality(S) -> S] :
        \A i, j \in 1..Cardinality(S) : i < j => q[i] < q[j]
Chains == {SortedSeq(S) : S \in (SUBSET FrameAddrs) \ {{}}}

\* the stack that holds the chain c: per frame the saved frame pointer, the
\* return address and five argument words
MemOf(c) ==
    [a \in {c[i] + 4 * k : i \in 1..Len(c), k \in 0..6} |->
        LET i == CHOOSE n \in 1..Len(c) : c[n] <= a /\ a < c[n] + 28
            k == (a - c[i]) \div 4
        IN  IF k = 0 THEN (IF i < Len(c) THEN c[i + 1] ELSE 0)
            ELSE IF k = 1 THEN RetAddr(c[i])
            ELSE 1000 * k + i]

\* *((uint32_t *)base + k)
ReadWord(m, base, k) ==
    IF base + 4 * k \in DOMAIN m THEN m[base + 4 * k] ELSE 0

\* a loop that does not test the frame pointer
FrameLiveAlways(e) == TRUE
\* the condition of the loop of mon_backtrace: while (ebp)
FrameLive(e) == e # 0

\* the functions the debug information knows
SymTab ==
    { [lo |-> 100, hi |-> 200, file |-> "kern/monitor.c", line |-> 230,
       name |-> <<"m", "o", "n", ":", "F">>, namelen |-> 3],
      [lo |-> 300, hi |-> 400, file |-> "kern/init.c", line |-> 44,
       name |-> <<"i", "n", "i", "t", ":", "F">>, namelen |-> 4] }

Known(eip) == \E f \in SymTab : f.lo <= eip /\ eip < f.hi

InfoOf(f) ==
    [eip_file |-> f.file, eip_line |-> f.line, eip_fn_name |-> f.name,
     eip_fn_namelen |-> f.namelen, eip_fn_addr |-> f.lo]

\* the fields that stand for "no symbol"
UnknownInfo(eip) ==
    [eip_file |-> "<unknown>", eip_line |-> 0,
     eip_fn_name |-> <<"<", "u", "n", "k", "n", "o", "w", "n", ">">>,
     eip_fn_namelen |-> 9, eip_fn_addr |-> eip]

\* what an uninitialised struct Eipdebuginfo may hold
GarbageInfos ==
    { [eip_file |-> "?", eip_line |-> 77, eip_fn_name |-> <<"?", "?">>,
       eip_fn_namelen |-> 1, eip_fn_addr |-> 8],
      [eip_file |-> "??", eip_line |-> 0, eip_fn_name |-> <<"#">>,
       eip_fn_namelen |-> 1, eip_fn_addr |-> 0] }

\* debuginfo_eip(eip, &info): the values info may hold after the call.  With
\* a symbol found the fields are the symbol's; with none found the resolver
\* answers "absent", and info is either left as it was or filled with the
\* "no symbol" fields.
debuginfo_eip(eip, info) ==
    IF Known(eip)
    THEN {InfoOf(CHOOSE f \in SymTab : f.lo <= eip /\ eip < f.hi)}
    ELSE {info, UnknownInfo(eip)}

(***************************************************************************)
(* The page tables the monitor is run on: page number |-> entry            *)
(***************************************************************************)
TopPage == NPAGES - 1

PageTables ==
    { (0 :> NoPte) @@ (1 :> Word(257, 3)) @@ (2 :> Word(258, 0))
        @@ (3 :> Word(259, 4095)) @@ ((TopPage - 1) :> Word(500, 101))
        @@ (TopPage :> Word(501, 259)),
      (0 :> Word(16, 513)) @@ (1 :> NoPte) @@ (2 :> Word(300, 27))
        @@ (3 :> Word(301, 6)) @@ ((TopPage - 1) :> Word(7, 129))
        @@ (TopPage :> NoPte),
      (0 :> Word(1, 3)) @@ (1 :> Word(2, 7)) @@ (2 :> Word(3, 99))
        @@ (3 :> Word(4, 1)) @@ ((TopPage - 1) :> Word(5, 2049))
        @@ (TopPage :> Word(6, 1027)) }

(***************************************************************************)
(* The lines the operator types                                            *)
(***************************************************************************)
RECURSIVE Join(_)
Join(toks) ==
    IF toks = <<>> THEN <<>>
    ELSE IF Len(toks) = 1 THEN toks[1]
    ELSE toks[1] \o <<" ">> \o Join(Tail(toks))

AddrTokens ==
    { <<"0">>, <<"1">>, <<"1", "0", "0", "0">>, <<"1", "0", "0", "1">>,
      <<"1", "F", "F", "F">>, <<"2", "0", "0", "0">>, <<"3", "0", "0", "0">>,
      <<"f", "f", "f", "f", "e", "0", "0", "1">>,
      <<"f", "f", "f", "f", "f", "0", "0", "0">>,
      <<"f", "f", "f", "f", "f", "f", "f", "f">>,
      <<"1", "0", "g", "0">>, <<"z", "z">> }

CmdTokens ==
    { s_help, <<"h">>, s_kerninfo, <<"k", "i">>, s_backtrace, <<"b", "t">>,
      s_showmappings, <<"s", "m">>,
      <<"H", "e", "l", "p">>, <<"x">>, <<"s", "m", "x">>, <<"s">> }

Repeat(tok, n) == [i \in 1..n |-> tok]

Lines ==
    { <<>>, <<" ", "\t">>,
      <<" ", "\t", "s", "m", "\t", "\t", "1", "0", "0", "0", " ", "\r", "\n">>,
      Join(<<(<<"s", "m">>)>> \o Repeat(<<"a">>, MAXARGS - 2)),
      Join(<<(<<"s", "m">>)>> \o Repeat(<<"a">>, MAXARGS - 1)),
      Join(Repeat(<<"x">>, MAXARGS)) }
    \cup {Join(<<c>>) : c \in CmdTokens}
    \cup {Join(<<c, a>>) : c \in CmdTokens, a \in {<<"1", "0", "0", "0">>}}
    \cup {Join(<<(<<"s", "m">>), a>>) : a \in AddrTokens}
    \cup {Join(<<(<<"s", "m">>), a, b>>) : a \in AddrTokens, b \in AddrTokens}
    \cup {Join(<<s_showmappings, a, b, c>>) :
            a \in {<<"1", "0", "0", "0">>, <<"z", "z">>},
            b \in {<<"2", "0", "0", "0">>, <<"z", "z">>},
            c \in {<<"3", "0", "0", "0">>}}

\* what the bytes at address 0 may be read as when strtol is handed the
\* null pointer that ends argv
NullStrings == {<<>>, <<"z">>, <<"1", "0", "0", "0">>}

\* t is a parse of a line that runcmd hands to no handler: too many
\* arguments, none at all, or a first one that matches no command
NoHandler(t) ==
    IF t.toomany \/ t.argv = <<>> THEN TRUE ELSE Lookup(t.argv[1]) = "none"

\* the calls runcmd makes of the handler f: the line and its argument vector
CallsOf(f) ==
    {[line |-> l, argv |-> Tokenize(l).argv] : l \in {m \in Lines :
        LET t == Tokenize(m)
        IN  ~t.toomany /\ t.argv # <<>> /\ Lookup(t.argv[1]) = f}}

HelpCalls == CallsOf("mon_help")
KerninfoCalls == CallsOf("mon_kerninfo")
BacktraceCalls == CallsOf("mon_backtrace")
ShowmappingsCalls == CallsOf("mon_showmappings")
\* the parses of the lines that reach no handler
NoneParses ==
    {c \in {[line |-> l, parse |-> Tokenize(l)] : l \in Lines} :
        NoHandler(c.parse)}

(***************************************************************************)
(* The state                                                               *)
(***************************************************************************)
VARIABLES
    pc,          \* where the monitor is: "prompt" (in readline), "walk" (in
                 \* the range loop of mon_showmappings), "bt" (in the loop of
                 \* mon_backtrace), "exited" (monitor has left its loop),
                 \* "fault" (the kernel has left defined behaviour)
    got,         \* what the last readline returned: "none", "null", "line"
    line,        \* the line the last readline returned, <<>> if none
    argv,        \* the arguments runcmd parsed from the last line
    cmd,         \* the handler runcmd invoked for the last line, or "none"
    hret,        \* the value the handler returned for the last line
    ret,         \* the value runcmd returned for the last line
    out,         \* the lines printed for the last line
    lookups,     \* the addresses handed to pgdir_walk for the last line
    start_addr, end_addr, addr,     \* locals of mon_showmappings
    perm,        \* the stack bytes from perm[0] up to the last one written
    ebp, info,   \* locals of mon_backtrace
    reads,       \* the stack words mon_backtrace has read: [base, off]
    kern_pgdir,  \* the page table
    mem,         \* the stack
    ebp0         \* the frame pointer read_ebp() returns

vars ==
    <<pc, got, line, argv, cmd, hret, ret, out, lookups, start_addr, end_addr, addr,
      perm, ebp, info, reads, kern_pgdir, mem, ebp0>>

machine == <<kern_pgdir, mem, ebp0>>
smvars == <<lookups, start_addr, end_addr, addr, perm>>
btvars == <<ebp, info, reads>>

Zero == Word(0, 0)
NoInfo == UnknownInfo(0)

Init ==
    /\ pc = "prompt"
    /\ got = "none"
    /\ line = <<>>
    /\ argv = <<>>
    /\ cmd = "none"
    /\ hret = 0
    /\ ret = 0
    /\ out = <<>>
    /\ lookups = <<>>
    /\ start_addr = Zero /\ end_addr = Zero /\ addr = Zero
    /\ perm = PermInit
    /\ ebp = 0 /\ info = NoInfo /\ reads = {}
    \* the page table and the stack do not depend on each other: each is
    \* varied with the other one held fixed
    /\ kern_pgdir \in PageTables
    /\ \E c \in Chains :
         /\ Len(c) = MaxDepth \/ kern_pgdir[0] = NoPte
         /\ mem = MemOf(c)
         /\ ebp0 = c[1]

\* the locals of the handlers at the start of a command
FreshSm ==
    /\ lookups' = <<>>
    /\ start_addr' = Zero /\ end_addr' = Zero /\ addr' = Zero
    /\ perm' = PermInit
FreshBt == ebp' = 0 /\ info' = NoInfo /\ reads' = {}

\* a monitor that leaves its loop on a zero status too
ExitsLax(r) == r <= 0
\* the test of monitor on what runcmd returned: runcmd(buf, tf) < 0
Exits(r) == r < 0

\* what runcmd returns when the handler it called returned h
RunCmdRet(h) == h

\* where monitor goes with runcmd's value r
After(r) == IF Exits(r) THEN "exited" ELSE "prompt"

\* where the handler's return can lead once a string has been written
\* past the end of perm: back to runcmd with r, or anywhere
AfterSmash(r, over) == IF over > 0 THEN {After(r), "fault"} ELSE {After(r)}

(***************************************************************************)
(* monitor: readline returned NULL                                         *)
(***************************************************************************)
ReadNull ==
    /\ pc = "prompt"
    /\ got' = "null"
    /\ line' = <<>>
    /\ argv' = <<>> /\ cmd' = "none" /\ hret' = 0 /\ ret' = 0 /\ out' = <<>>
    /\ FreshSm /\ FreshBt
    /\ pc' = "prompt"
    /\ UNCHANGED machine

(***************************************************************************)
(* runcmd on a line that reaches no handler                                *)
(***************************************************************************)
RunNone ==
    /\ pc = "prompt"
    /\ \E c \in NoneParses :
         LET t == c.parse
         IN  /\ line' = c.line
             /\ argv' = t.argv
             /\ out' = IF t.toomany THEN <<[k |-> "Too many arguments"]>>
                       ELSE IF t.argv = <<>> THEN <<>>
                       ELSE <<[k |-> "Unknown command", tok |-> t.argv[1]]>>
    /\ got' = "line"
    /\ cmd' = "none"
    /\ hret' = 0
    /\ hret' = 0
    /\ ret' = RunCmdRet(0)
    /\ pc' = After(RunCmdRet(0))
    /\ FreshSm /\ FreshBt
    /\ UNCHANGED machine

(***************************************************************************)
(* mon_help and mon_kerninfo                                               *)
(***************************************************************************)
MonHelp ==
    /\ pc = "prompt"
    /\ \E c \in HelpCalls : line' = c.line /\ argv' = c.argv
    /\ got' = "line"
    /\ cmd' = "mon_help"
    /\ out' = [i \in 1..Len(commands) |->
                 [k |-> "help", name |-> commands[i].name,
                  desc |-> commands[i].desc]]
    /\ hret' = 0
    /\ ret' = RunCmdRet(0)
    /\ pc' = After(RunCmdRet(0))
    /\ FreshSm /\ FreshBt
    /\ UNCHANGED machine

MonKerninfo ==
    /\ pc = "prompt"
    /\ \E c \in KerninfoCalls : line' = c.line /\ argv' = c.argv
    /\ got' = "line"
    /\ cmd' = "mon_kerninfo"
    /\ out' = <<[k |-> "Special kernel symbols:"]>>
    /\ hret' = 0
    /\ ret' = RunCmdRet(0)
    /\ pc' = After(RunCmdRet(0))
    /\ FreshSm /\ FreshBt
    /\ UNCHANGED machine

(***************************************************************************)
(* mon_showmappings                                                        *)
(***************************************************************************)
MappedLine(va, pte, buf) ==
    [k |-> "mapped", va |-> va, pa |-> PTE_ADDR(pte), perm |-> CStr(buf)]
UnmappedLine(va) == [k |-> "not mapped", va |-> va]

SmResult(kind, r, o, lk, buf, st, en) ==
    [k |-> kind, ret |-> r, out |-> o, lookups |-> lk, perm |-> buf,
     start |-> st, end |-> en]

\* mon_showmappings up to its return or to the entry of its range loop.
\* s1 is the string strtol reads through argv[1], av the argument vector.
SmHead(s1, av, pgdir) ==
    LET argc == Len(av)
        p1 == strtol(s1)
        st == ROUNDDOWN(p1.val)
        pte == pgdir_walk(pgdir, st)
        p2 == strtol(av[3])
    IN  IF p1.endptr # <<>>
        THEN SmResult("ret", -E_INVAL, <<[k |-> "invalid start address."]>>,
                      <<>>, PermInit, Zero, Zero)
        ELSE IF argc = 2
        THEN IF NotMapped(pte)
             THEN SmResult("ret", 0, <<UnmappedLine(st)>>, <<st>>, PermInit,
                           st, Zero)
             ELSE SmResult("ret", 0,
                           <<MappedLine(st, pte, get_perm(PermInit, pte))>>,
                           <<st>>, get_perm(PermInit, pte), st, Zero)
        ELSE IF argc # 3
        THEN SmResult("ret", -E_INVAL,
                      <<[k |-> "require one or two arguments,"],
                        [k |-> "i.e., start [and end] address."]>>,
                      <<>>, PermInit, st, Zero)
        ELSE IF p2.endptr # <<>>
        THEN SmResult("ret", -E_INVAL, <<[k |-> "invalid start address."]>>,
                      <<>>, PermInit, st, Zero)
        ELSE IF GtU32(st, p2.val)
        THEN SmResult("ret", -E_INVAL,
                      <<[k |-> "start address higher than end address"]>>,
                      <<>>, PermInit, st, p2.val)
        ELSE SmResult("loop", 0,
                      <<[k |-> "round up", from |-> p2.val,
                         to |-> ROUNDUP(p2.val)],
                        [k |-> "range", start |-> st,
                         end |-> ROUNDUP(p2.val)]>>,
                      <<>>, PermInit, st, ROUNDUP(p2.val))

SmApply(c, r) ==
    /\ got' = "line"
    /\ line' = c.line
    /\ argv' = c.argv
    /\ cmd' = "mon_showmappings"
    /\ out' = r.out
    /\ lookups' = r.lookups
    /\ perm' = r.perm
    /\ start_addr' = r.start
    /\ end_addr' = r.end
    /\ addr' = IF r.k = "loop" THEN r.start ELSE Zero
    /\ hret' = r.ret
    /\ ret' = IF r.k = "loop" THEN 0 ELSE RunCmdRet(r.ret)
    /\ pc' \in IF r.k = "loop" THEN {"walk"}
               ELSE AfterSmash(RunCmdRet(r.ret), Overflow(r.perm))
    /\ FreshBt
    /\ UNCHANGED machine

\* showmappings with at least one argument
MonShowmappings ==
    /\ pc = "prompt"
    /\ \E c \in ShowmappingsCalls :
         /\ Len(c.argv) >= 2
         /\ LET r == SmHead(c.argv[2], c.argv, kern_pgdir) IN SmApply(c, r)

\* showmappings alone: argv[1] is the null pointer runcmd stored, and strtol
\* reads through it.  The read faults, or yields whatever lies at address 0.
MonShowmappingsNull ==
    /\ pc = "prompt"
    /\ \E c \in ShowmappingsCalls :
         /\ Len(c.argv) = 1
         /\ \/ \E s1 \in NullStrings :
                  LET r == SmHead(s1, c.argv, kern_pgdir) IN SmApply(c, r)
            \/ /\ got' = "line" /\ line' = c.line /\ argv' = c.argv
               /\ cmd' = "mon_showmappings"
               /\ out' = <<>> /\ hret' = 0 /\ ret' = 0
               /\ pc' = "fault"
               /\ FreshSm /\ FreshBt
               /\ UNCHANGED machine

\* one turn of the range loop: for (...; addr <= end_addr; addr += PGSIZE)
Walk ==
    /\ pc = "walk"
    /\ LeqU32(addr, end_addr)
    /\ Len(lookups) < MaxLookups
    /\ LET pte == pgdir_walk(kern_pgdir, addr)
           buf == get_perm(memset(perm, ClearSize), pte)
       IN  /\ lookups' = Append(lookups, addr)
           /\ IF NotMapped(pte)
              THEN /\ out' = Append(out, UnmappedLine(addr))
                   /\ perm' = perm
                   /\ pc' = "walk"
              ELSE /\ out' = Append(out, MappedLine(addr, pte, buf))
                   /\ perm' = buf
                   /\ pc' \in IF Overflow(buf) > 0 THEN {"walk", "fault"}
                              ELSE {"walk"}
    /\ addr' = AddU32(addr, PGSIZE)
    /\ UNCHANGED <<got, line, argv, cmd, hret, ret, start_addr, end_addr>>
    /\ UNCHANGED btvars
    /\ UNCHANGED machine

\* the loop condition fails: return 0
WalkReturn ==
    /\ pc = "walk"
    /\ GtU32(addr, end_addr)
    /\ hret' = 0
    /\ ret' = RunCmdRet(0)
    /\ pc' \in AfterSmash(RunCmdRet(0), Overflow(perm))
    /\ UNCHANGED <<got, line, argv, cmd, out>>
    /\ UNCHANGED smvars
    /\ UNCHANGED btvars
    /\ UNCHANGED machine

(***************************************************************************)
(* mon_backtrace                                                           *)
(***************************************************************************)
MonBacktrace ==
    /\ pc = "prompt"
    /\ \E c \in BacktraceCalls : line' = c.line /\ argv' = c.argv
    /\ got' = "line"
    /\ cmd' = "mon_backtrace"
    /\ out' = <<[k |-> "Stack backtrace:"]>>
    /\ hret' = 0
    /\ ret' = 0
    /\ ebp' = ebp0
    /\ info' \in GarbageInfos
    /\ reads' = {}
    /\ pc' = "bt"
    /\ FreshSm
    /\ UNCHANGED machine

\* one turn of the loop: while (ebp) { ... ebp = *((uint32_t *)ebp); }
Unwind ==
    /\ pc = "bt"
    /\ FrameLive(ebp)
    /\ LET eip == ReadWord(mem, ebp, EipSlot)
           args == [i \in 1..Len(ArgSlots) |-> ReadWord(mem, ebp, ArgSlots[i])]
       IN  \E inf \in debuginfo_eip(eip, info) :
             /\ info' = inf
             /\ out' = out \o
                  << [k |-> "frame", ebp |-> ebp, eip |-> eip, args |-> args],
                     [k |-> "symbol", file |-> inf.eip_file,
                      line |-> inf.eip_line,
                      fn |-> SubSeq(inf.eip_fn_name, 1, inf.eip_fn_namelen),
                      off |-> eip - inf.eip_fn_addr] >>
    /\ reads' = reads \cup
         {[base |-> ebp, off |-> k] :
            k \in {NextSlot, EipSlot} \cup {ArgSlots[i] : i \in 1..Len(ArgSlots)}}
    /\ ebp' = ReadWord(mem, ebp, NextSlot)
    /\ UNCHANGED <<pc, got, line, argv, cmd, hret, ret>>
    /\ UNCHANGED smvars
    /\ UNCHANGED machine

UnwindReturn ==
    /\ pc = "bt"
    /\ ~FrameLive(ebp)
    /\ hret' = 0
    /\ ret' = RunCmdRet(0)
    /\ pc' = After(RunCmdRet(0))
    /\ UNCHANGED <<got, line, argv, cmd, out>>
    /\ UNCHANGED smvars
    /\ UNCHANGED btvars
    /\ UNCHANGED machine

Next ==
    \/ ReadNull
    \/ RunNone
    \/ MonHelp
    \/ MonKerninfo
    \/ MonShowmappings
    \/ MonShowmappingsNull
    \/ Walk
    \/ WalkReturn
    \/ MonBacktrace
    \/ Unwind
    \/ UnwindReturn

Spec == Init /\ [][Next]_vars

(***************************************************************************)
(* Properties                                                              *)
(***************************************************************************)
\* the handler of the last line has returned to monitor
Returned == pc \in {"prompt", "exited"}

ShowmappingsRan == got = "line" /\ cmd = "mon_showmappings"
BacktraceRan == got = "line" /\ cmd = "mon_backtrace"

\* s consists of hex digits only
RECURSIVE AllHex(_)
AllHex(s) == IF s = <<>> THEN TRUE ELSE IsHex(Head(s)) /\ AllHex(Tail(s))

\* the two addresses of a two-address call, as typed and as rounded
TwoValid == ShowmappingsRan /\ Len(argv) = 3 /\ AllHex(argv[2]) /\ AllHex(argv[3])
TypedStart == strtol(argv[2]).val
TypedEnd == strtol(argv[3]).val
RoundedStart == ROUNDDOWN(TypedStart)
RoundedEnd == ROUNDUP(TypedEnd)

UsageReport ==
    <<[k |-> "require one or two arguments,"],
      [k |-> "i.e., start [and end] address."]>>
StartAfterEndReport == <<[k |-> "start address higher than end address"]>>

\* the operator's input to showmappings is malformed: a wrong number of
\* addresses, a non-hex character in an address, or start after end
Malformed ==
    IF Len(argv) \notin {2, 3} THEN TRUE
    ELSE IF \E i \in 2..Len(argv) : ~AllHex(argv[i]) THEN TRUE
    ELSE Len(argv) = 3 /\ GtU32(RoundedStart, TypedEnd)

\* C1: no malformed showmappings input and no backtrace ends the console
\* loop: once the handler is through, its return value is not negative and
\* monitor is back at its prompt.
C1_MalformedInputKeepsLoop ==
    ((ShowmappingsRan /\ Malformed) \/ BacktraceRan) /\ pc \notin {"walk", "bt"}
        => hret >= 0 /\ ret >= 0 /\ pc = "prompt"

\* C2: a range walk ends: it makes no more calls of pgdir_walk than there
\* are pages from start_addr to end_addr, and once it has looked up the page
\* end_addr the loop condition fails.
C2_WalkEnds ==
    pc = "walk" /\ lookups # <<>> =>
        /\ Len(lookups) <= end_addr.hi - start_addr.hi + 1
        /\ lookups[Len(lookups)] = end_addr => GtU32(addr, end_addr)

\* C3: showmappings with neither one nor two addresses reports the usage
\* error, returns a status that keeps the console loop running and makes no
\* page-table lookup.
C3_WrongCountIsUsageError ==
    ShowmappingsRan /\ Len(argv) \notin {2, 3} =>
        /\ pc = "prompt"
        /\ out = UsageReport
        /\ lookups = <<>>

\* C4: a two-address call with valid addresses whose rounded start lies
\* after its rounded end is rejected with the start-after-end report and a
\* status that keeps the console loop running, without any lookup.
C4_StartAfterEndRejected ==
    TwoValid /\ GtU32(RoundedStart, RoundedEnd) =>
        /\ pc = "prompt"
        /\ out = StartAfterEndReport
        /\ lookups = <<>>

\* the i-th page of the walk from the rounded start
PageAt(i) == Word(RoundedStart.hi + i - 1, 0)
PageReports == SelectSeq(out, LAMBDA r : r.k \in {"mapped", "not mapped"})

\* C5: a two-address call with valid addresses whose rounded start is not
\* after its rounded end is not rejected and looks up each page from the
\* rounded start to the rounded end once, in ascending order, with one
\* report line per page, mapped or not.
C5_RangeWalkedOncePerPage ==
    TwoValid /\ LeqU32(RoundedStart, RoundedEnd) =>
        /\ pc \in {"walk", "prompt"}
        /\ out # StartAfterEndReport
        /\ Len(lookups) <= RoundedEnd.hi - RoundedStart.hi + 1
        /\ \A i \in 1..Len(lookups) : lookups[i] = PageAt(i)
        /\ Len(PageReports) = Len(lookups)
        /\ \A i \in 1..Len(lookups) : PageReports[i].va = lookups[i]
        /\ pc = "prompt" => Len(lookups) = RoundedEnd.hi - RoundedStart.hi + 1

\* the frame-pointer chain that starts at f: f, the frame pointer saved at
\* f, and so on up to the zero terminator
RECURSIVE ChainFrom(_, _)
ChainFrom(f, n) ==
    IF f = 0 \/ n = 0 THEN <<>>
    ELSE <<f>> \o ChainFrom(ReadWord(mem, f, 0), n - 1)
Chain == ChainFrom(ebp0, MaxDepth + 1)

FrameReports == SelectSeq(out, LAMBDA r : r.k = "frame")

\* C6: backtrace reports the frames of the chain in chain order, one report
\* per frame and no more, and stops at the zero terminator; every word it
\* reads lies at a word offset 0..6 from a frame pointer of the chain, none
\* at the terminator.
C6_BacktraceFollowsChain ==
    /\ \A r \in reads :
         /\ r.base # 0
         /\ r.off \in 0..6
         /\ \E i \in 1..Len(Chain) : Chain[i] = r.base
    /\ BacktraceRan =>
         /\ Len(FrameReports) <= Len(Chain)
         /\ \A i \in 1..Len(FrameReports) : FrameReports[i].ebp = Chain[i]
         /\ pc = "bt" /\ ebp # 0 => ebp = Chain[Len(FrameReports) + 1]
         /\ pc = "bt" /\ ebp = 0 => Len(FrameReports) = Len(Chain)
         /\ pc # "bt" => Len(FrameReports) = Len(Chain) /\ pc = "prompt"

C6_Witness ==
    /\ BacktraceRan /\ pc = "prompt"
    /\ Len(Chain) >= 2
    /\ Len(FrameReports) = Len(Chain)
    /\ Cardinality(reads) = 7 * Len(Chain)

\* the tokens of a line: the starts of its maximal runs of non-blanks
TokenStarts(l) ==
    {i \in 1..Len(l) :
        l[i] \notin WHITESPACE /\ (i = 1 \/ l[i - 1] \in WHITESPACE)}
FirstToken(l) ==
    LET i == CHOOSE n \in TokenStarts(l) : \A m \in TokenStarts(l) : n <= m
        j == CHOOSE n \in i..Len(l) :
                 /\ \A m \in i..n : l[m] \notin WHITESPACE
                 /\ n = Len(l) \/ l[n + 1] \in WHITESPACE
    IN  SubSeq(l, i, j)

\* the handler the command table gives for a first token
HandlerOf(tok) ==
    IF tok \in {s_help, <<"h">>} THEN "mon_help"
    ELSE IF tok \in {s_kerninfo, <<"k", "i">>} THEN "mon_kerninfo"
    ELSE IF tok \in {s_backtrace, <<"b", "t">>} THEN "mon_backtrace"
    ELSE IF tok \in {s_showmappings, <<"s", "m">>} THEN "mon_showmappings"
    ELSE "none"

\* the line reaches no handler: empty, too many tokens, or no such command
Undispatched(l) ==
    IF TokenStarts(l) = {} \/ Cardinality(TokenStarts(l)) >= MAXARGS THEN TRUE
    ELSE HandlerOf(FirstToken(l)) = "none"

\* C7: monitor leaves its loop exactly after a line whose handler returned
\* a negative status.  An empty line, one with too many tokens and one whose
\* first token names no command call no handler, make runcmd return 0 and
\* leave monitor at its prompt; any other line calls the handler the table
\* gives for its first token, and runcmd returns what the handler returned.
C7_ExitContract ==
    /\ pc = "exited" => got = "line" /\ cmd # "none" /\ hret < 0
    /\ pc = "prompt" => hret >= 0
    /\ got # "line" => cmd = "none" /\ ret = 0 /\ pc = "prompt"
    /\ got = "line" =>
         IF Undispatched(line)
         THEN cmd = "none" /\ ret = 0 /\ pc = "prompt"
         ELSE /\ cmd = HandlerOf(FirstToken(line))
              /\ Returned => ret = hret

C7_Witness ==
    /\ pc = "exited" /\ cmd = "mon_showmappings" /\ hret < 0 /\ ret = hret
    /\ Len(argv) = MAXARGS - 1

\* the symbol line that stands for "no symbol"
IsUnknownLine(r) ==
    /\ r.k = "symbol"
    /\ r.file = "<unknown>"
    /\ r.fn = <<"<", "u", "n", "k", "n", "o", "w", "n", ">">>

\* C8: for a frame whose return address has no symbol, backtrace prints the
\* frame line and then the unknown marker, not symbol fields the resolver
\* did not provide, and goes on to the next frame.
C8_UnknownSymbolMarked ==
    BacktraceRan =>
        \A i \in 1..Len(out) :
            out[i].k = "frame" /\ ~Known(out[i].eip) =>
                i < Len(out) /\ IsUnknownLine(out[i + 1])

\* the permission summary of an entry with flag bits e: ten markers in the
\* order available, global, page-size, dirty, accessed, cache-disable,
\* write-through, user, writable, present
SummaryOf(e) ==
    LET Bit(b) == (e \div b) % 2 = 1
        M(set, tok) == IF set THEN tok ELSE <<"-">>
    IN  M((e \div 512) % 8 # 0, <<"(", "A", "V", "L", ")">>)
        \o M(Bit(256), <<"(", "G", ")">>)
        \o M(Bit(128), <<"(", "P", "S", ")">>)
        \o M(Bit(64), <<"(", "D", ")">>)
        \o M(Bit(32), <<"(", "A", ")">>)
        \o M(Bit(16), <<"(", "P", "C", "D", ")">>)
        \o M(Bit(8), <<"(", "P", "W", "T", ")">>)
        \o M(Bit(4), <<"(", "U", ")">>)
        \o M(Bit(2), <<"(", "W", ")">>)
        \o M(Bit(1), <<"(", "P", ")">>)

C10_PermNeverOverflows == Overflow(perm) = 0

=============================================================================
